---- MODULE Spec2Model ----
(***************************************************************************)
(* The VideoCall component (frontend/src/components/VideoCall.jsx): the    *)
(* mesh of RTCPeerConnection objects kept in pcRef, the async handleSignal *)
(* handler with its suspension points, the mount/unmount effect, the join  *)
(* announcement effect, screen sharing and hangUp.                         *)
(*                                                                         *)
(* One action is one macrotask of the browser: the synchronous part of a   *)
(* handler up to its first await, or the resumption of a suspended handler *)
(* up to its next await.                                                   *)
(***************************************************************************)
EXTENDS Integers, Sequences, FiniteSets, Bags, TLC

\* ------------------------------------------------------------- bounds
MaxPcs == 2        \* RTCPeerConnection objects created during one call
MaxStreams == 2    \* getUserMedia requests made during one call
MaxScreens == 2    \* getDisplayMedia requests made during one call
MaxInflight == 2   \* handleSignal invocations suspended at the same time
MaxTraced == 1     \* the same, in the specification that traces deliveries

\* ---------------------------------------------------- identifiers
Local == "A"                       \* user?.id
Remote == {"B", "C"}               \* the other participants of the room
NoId == "none"                     \* an absent from_user / to_user field
Senders == Remote \cup {Local, NoId}
Negotiators == {"B", Local, NoId}  \* senders of offers, answers and candidates
Recipients == {Local, "C"}         \* to_user: this participant, or another one
Named == Remote \cup {Local}       \* data.user_id of a user_left

NoMsg == [type |-> "none", to |-> NoId]
NoIn == [type |-> "none", from |-> NoId, arg |-> NoId]
In(t, from, arg) == [type |-> t, from |-> from, arg |-> arg]
Msg(t, to) == [type |-> t, to |-> to]

VARIABLES
  mounted,        \* the component is mounted
  connected,      \* useCallSocket's connected flag
  startPhase,     \* start()'s getUserMedia: "pending", "done", "failed"
  localStream,    \* useState localStream: a stream id, 0 for null
  nextStream,     \* capture streams acquired so far (ids 1..nextStream)
  live,           \* capture streams whose tracks are live
  screenStream,   \* useState screenStream: a screen stream id, 0 for null
  isScreenSharing,\* useState isScreenSharing
  screenPending,  \* getDisplayMedia requests not yet settled
  nextScreen,     \* screen streams acquired so far
  screenLive,     \* screen streams whose tracks are live
  pcs,            \* every RTCPeerConnection object created, by identity
  pcRef,          \* pcRef.current: participant -> object id, 0 for absent
  peers,          \* keys of useState peers (the UI peer set)
  joinSentRef,    \* joinSentRef.current
  isMuted,        \* useState isMuted
  isVideoOff,     \* useState isVideoOff
  audioOff,       \* capture streams whose audio tracks have enabled = false
  videoOff,       \* capture streams whose video tracks have enabled = false
  room,           \* a room of two components: each one's socket, stream, session, inbox
  inflight,       \* suspended handleSignal invocations (a bag: they resume in any order)
  out,            \* the message handed to send() by the last step
  fault,          \* the exception raised by the last step, "none" if none
  lastIn,         \* the message the last step delivered to handleSignal, if traced
  joinsSent,      \* history: join announcements sent
  est             \* history: a join/offer of theirs reached session creation since then

vars == <<mounted, connected, startPhase, localStream, nextStream,
          live, screenStream, isScreenSharing, screenPending, nextScreen, screenLive,
          pcs, pcRef, peers, joinSentRef, isMuted, isVideoOff, audioOff, videoOff,
          room, inflight, out, fault, lastIn, joinsSent, est>>

\* The state of the component and of the objects it owns (no history, no events).
prog == <<mounted, connected, startPhase, localStream, nextStream,
          live, screenStream, isScreenSharing, screenPending, nextScreen, screenLive,
          pcs, pcRef, peers, joinSentRef, isMuted, isVideoOff, audioOff, videoOff,
          inflight>>
controls == <<isMuted, isVideoOff, audioOff, videoOff>>
media == <<startPhase, localStream, nextStream, live>>
screen == <<screenStream, isScreenSharing, screenPending, nextScreen, screenLive>>
hist == <<joinsSent, est>>

\* ------------------------------------------------ RTCPeerConnection
NewPc(peerId) ==
  [peer |-> peerId, closed |-> FALSE, tracks |-> {}, sig |-> "stable",
   ld |-> FALSE, rd |-> FALSE, failed |-> FALSE]

Lookup(ref, peerId) == IF peerId \in Remote THEN ref[peerId] ELSE 0

Keys(ref) == {p \in Remote : ref[p] # 0}

\* pc.close(); nothing reads the other fields of a closed connection again.
ClosePc(pc) == [NewPc(pc.peer) EXCEPT !.closed = TRUE, !.sig = "closed"]

CloseAll(ps, ref) ==
  [x \in DOMAIN ps |-> IF \E p \in Remote : ref[p] = x THEN ClosePc(ps[x]) ELSE ps[x]]

\* A variant of CreatePeerConnection that does not look the participant up.
CreatePeerConnectionAlways(ps, ref, peerId) ==
  [pcs |-> Append(ps, NewPc(peerId)),
   ref |-> [ref EXCEPT ![peerId] = Len(ps) + 1],
   pc |-> Len(ps) + 1]

\* A variant of CreatePeerConnection that takes up the participant's earlier
\* connection object when the map has none.
CreatePeerConnectionReuses(ps, ref, peerId) ==
  IF ref[peerId] # 0
  THEN [pcs |-> ps, ref |-> ref, pc |-> ref[peerId]]
  ELSE IF \E x \in DOMAIN ps : ps[x].peer = peerId
  THEN LET x == CHOOSE y \in DOMAIN ps : ps[y].peer = peerId
       IN [pcs |-> ps, ref |-> [ref EXCEPT ![peerId] = x], pc |-> x]
  ELSE [pcs |-> Append(ps, NewPc(peerId)),
        ref |-> [ref EXCEPT ![peerId] = Len(ps) + 1],
        pc |-> Len(ps) + 1]

\* createPeerConnection(peerId): the existing object, or a new one put in the map.
CreatePeerConnection(ps, ref, peerId) ==
  IF ref[peerId] # 0
  THEN [pcs |-> ps, ref |-> ref, pc |-> ref[peerId]]
  ELSE [pcs |-> Append(ps, NewPc(peerId)),
        ref |-> [ref EXCEPT ![peerId] = Len(ps) + 1],
        pc |-> Len(ps) + 1]

\* stream.getTracks().forEach(t => pc.addTrack(t, stream)) throws on a closed
\* connection (InvalidStateError) and on a track that already has a sender
\* (InvalidAccessError), in both cases before any track is added.
AddTrackThrows(pc, s) == pc.closed \/ s \in pc.tracks

AddTracks(pc, s) == [pc EXCEPT !.tracks = @ \cup {s}]

\* ------------------------------------------------------ handleSignal
\* if (!peerId || peerId === user?.id) return;
Ignored(from) == from = NoId \/ from = Local

\* A variant of Addressed that does not look at to_user.
AddressedAny(to) == to = to

\* to_user === user?.id
Addressed(to) == to = Local

Handler(t, p, x, st) == [type |-> t, peer |-> p, pc |-> x, step |-> st]

Spawn(h) == inflight (+) SetToBag({h})
Retire(h) == inflight (-) SetToBag({h})
Suspended == BagToSet(inflight)
Count(S) == BagCardinality([h \in S |-> inflight[h]])

PendingGum == (IF startPhase = "pending" THEN 1 ELSE 0)
              + Count({h \in Suspended : h.step = "gum"})

PendingCreate == Count({h \in Suspended : h.step = "gum" /\ h.pc = 0})

CanSpawn == BagCardinality(inflight) < MaxInflight
CanGum == nextStream + PendingGum < MaxStreams
CanCreate(peerId) == pcRef[peerId] # 0 \/ Len(pcs) + PendingCreate < MaxPcs


\* ----------------------------------------------- a room of two components
Pair == {"A", "B"}
Other(i) == IF i = "A" THEN "B" ELSE "A"

\* One component of the room: its socket, its local stream, joinSentRef, its
\* session for the other participant (none, or one), the messages on their way to it.
NewMember ==
  [connected |-> FALSE, stream |-> FALSE, joinSent |-> FALSE, pc |-> <<>>, inbox |-> <<>>]

Init ==
  /\ room = [i \in Pair |-> NewMember]
  /\ mounted = TRUE
  /\ connected = FALSE
  /\ startPhase = "pending"
  /\ localStream = 0
  /\ nextStream = 0
  /\ live = {}
  /\ screenStream = 0
  /\ isScreenSharing = FALSE
  /\ screenPending = 0
  /\ nextScreen = 0
  /\ screenLive = {}
  /\ pcs = <<>>
  /\ pcRef = [p \in Remote |-> 0]
  /\ peers = {}
  /\ joinSentRef = FALSE
  /\ isMuted = FALSE
  /\ isVideoOff = FALSE
  /\ audioOff = {}
  /\ videoOff = {}
  /\ inflight = EmptyBag
  /\ out = NoMsg
  /\ fault = "none"
  /\ lastIn = NoIn
  /\ joinsSent = 0
  /\ est = [p \in Remote |-> FALSE]

\* useCallSocket's connected flag changes as the socket opens and closes.
ConnectedChange ==
  /\ lastIn' = NoIn
  /\ mounted
  /\ connected' = ~connected
  /\ out' = NoMsg /\ fault' = "none"
  /\ UNCHANGED <<room, controls, mounted, media, screen, pcs, pcRef, peers,
                 joinSentRef, inflight, hist>>

\* The localStream the registered handleSignal closes over: the hook is handed
\* the callback of the latest render, which is rebuilt when localStream changes.
HandlerStream == localStream

\* A message that handleSignal returns from without doing anything.
Discard ==
  /\ fault' = "none"
  /\ UNCHANGED <<media, pcs, pcRef, peers, inflight>>

\* type === 'join', up to the first await (getUserMedia, or createOffer when a
\* local stream is already held).
HandleJoin(from) ==
  IF Ignored(from) THEN Discard
  ELSE IF HandlerStream # 0
  THEN LET cp == CreatePeerConnection(pcs, pcRef, from)
           x == cp.pc
       IN /\ CanCreate(from)
          /\ pcRef' = cp.ref
          /\ IF AddTrackThrows(cp.pcs[x], HandlerStream)
             THEN /\ pcs' = cp.pcs
                  /\ fault' = "addTrack"
                  /\ inflight' = inflight
             ELSE /\ CanSpawn
                  /\ pcs' = [cp.pcs EXCEPT ![x] = AddTracks(@, HandlerStream)]
                  /\ fault' = "none"
                  /\ inflight' = Spawn(Handler("join", from, x, "createOffer"))
          /\ UNCHANGED <<media, peers>>
  ELSE /\ CanSpawn /\ CanGum /\ CanCreate(from)
       /\ inflight' = Spawn(Handler("join", from, 0, "gum"))
       /\ fault' = "none"
       /\ UNCHANGED <<media, pcs, pcRef, peers>>

DeliverJoin(from) ==
  /\ mounted /\ connected
  /\ HandleJoin(from)
  /\ out' = NoMsg
  /\ est' = IF from \in Remote /\ localStream # 0 THEN [est EXCEPT ![from] = TRUE] ELSE est
  /\ UNCHANGED <<room, controls, mounted, connected, screen, joinSentRef, joinsSent>>

\* A variant of HandleOffer that goes on to createAnswer without applying the offer.
HandleOfferSkipsRemote(from, to) ==
  IF Ignored(from) \/ ~Addressed(to) THEN Discard
  ELSE LET cp == CreatePeerConnection(pcs, pcRef, from)
           x == cp.pc
       IN /\ CanCreate(from)
          /\ pcRef' = cp.ref
          /\ IF HandlerStream = 0
             THEN /\ CanSpawn /\ CanGum
                  /\ pcs' = cp.pcs
                  /\ fault' = "none"
                  /\ inflight' = Spawn(Handler("offer", from, x, "gum"))
             ELSE IF AddTrackThrows(cp.pcs[x], HandlerStream)
             THEN /\ pcs' = cp.pcs
                  /\ fault' = "addTrack"
                  /\ inflight' = inflight
             ELSE /\ CanSpawn
                  /\ pcs' = [cp.pcs EXCEPT ![x] = AddTracks(@, HandlerStream)]
                  /\ fault' = "none"
                  /\ inflight' = Spawn(Handler("offer", from, x, "createAnswer"))
          /\ UNCHANGED <<media, peers>>

\* type === 'offer' && to_user === user?.id, up to the first await.
HandleOffer(from, to) ==
  IF Ignored(from) \/ ~Addressed(to) THEN Discard
  ELSE LET cp == CreatePeerConnection(pcs, pcRef, from)
           x == cp.pc
       IN /\ CanCreate(from)
          /\ pcRef' = cp.ref
          /\ IF HandlerStream = 0
             THEN /\ CanSpawn /\ CanGum
                  /\ pcs' = cp.pcs
                  /\ fault' = "none"
                  /\ inflight' = Spawn(Handler("offer", from, x, "gum"))
             ELSE IF AddTrackThrows(cp.pcs[x], HandlerStream)
             THEN /\ pcs' = cp.pcs
                  /\ fault' = "addTrack"
                  /\ inflight' = inflight
             ELSE /\ CanSpawn
                  /\ pcs' = [cp.pcs EXCEPT ![x] = AddTracks(@, HandlerStream)]
                  /\ fault' = "none"
                  /\ inflight' = Spawn(Handler("offer", from, x, "setRemote"))
          /\ UNCHANGED <<media, peers>>

DeliverOffer(from, to) ==
  /\ mounted /\ connected
  /\ HandleOffer(from, to)
  /\ out' = NoMsg
  /\ est' = IF from \in Remote /\ to = Local THEN [est EXCEPT ![from] = TRUE] ELSE est
  /\ UNCHANGED <<room, controls, mounted, connected, screen, joinSentRef, joinsSent>>

\* A variant of HandleAnswer that makes a session for a sender that has none,
\* as the offer branch does.
HandleAnswerCreates(from, to) ==
  IF Ignored(from) \/ ~Addressed(to) THEN Discard
  ELSE LET cp == CreatePeerConnection(pcs, pcRef, from)
       IN /\ CanSpawn /\ CanCreate(from)
          /\ pcs' = cp.pcs
          /\ pcRef' = cp.ref
          /\ inflight' = Spawn(Handler("answer", from, cp.pc, "setRemoteAns"))
          /\ fault' = "none"
          /\ UNCHANGED <<media, peers>>

\* type === 'answer' && to_user === user?.id: routed to the sender's session, if any.
HandleAnswer(from, to) ==
  IF Ignored(from) \/ ~Addressed(to) \/ Lookup(pcRef, from) = 0 THEN Discard
  ELSE /\ CanSpawn
       /\ inflight' = Spawn(Handler("answer", from, pcRef[from], "setRemoteAns"))
       /\ fault' = "none"
       /\ UNCHANGED <<media, pcs, pcRef, peers>>

DeliverAnswer(from, to) ==
  /\ mounted /\ connected
  /\ HandleAnswer(from, to)
  /\ out' = NoMsg
  /\ est' = est
  /\ UNCHANGED <<room, controls, mounted, connected, screen, joinSentRef, joinsSent>>

\* A variant of HandleIce that makes a session for a sender that has none.
HandleIceCreates(from, to, cand) ==
  IF Ignored(from) \/ ~cand \/ ~Addressed(to) THEN Discard
  ELSE LET cp == CreatePeerConnection(pcs, pcRef, from)
       IN /\ CanSpawn /\ CanCreate(from)
          /\ pcs' = cp.pcs
          /\ pcRef' = cp.ref
          /\ inflight' = Spawn(Handler("ice", from, cp.pc, "addIce"))
          /\ fault' = "none"
          /\ UNCHANGED <<media, peers>>

\* type === 'ice-candidate' && candidate && to_user === user?.id: addIceCandidate
\* is called at once on the sender's session, if any.
HandleIce(from, to, cand) ==
  IF Ignored(from) \/ ~cand \/ ~Addressed(to) \/ Lookup(pcRef, from) = 0 THEN Discard
  ELSE /\ CanSpawn
       /\ inflight' = Spawn(Handler("ice", from, pcRef[from], "addIce"))
       /\ fault' = "none"
       /\ UNCHANGED <<media, pcs, pcRef, peers>>

DeliverIce(from, to, cand) ==
  /\ mounted /\ connected
  /\ HandleIce(from, to, cand)
  /\ out' = NoMsg
  /\ est' = est
  /\ UNCHANGED <<room, controls, mounted, connected, screen, joinSentRef, joinsSent>>

\* A variant of HandleUserLeft that forgets the connection but keeps the tile.
HandleUserLeftKeepsTile(from, pid) ==
  IF Ignored(from) THEN Discard
  ELSE /\ pcs' = IF Lookup(pcRef, pid) # 0
                 THEN [pcs EXCEPT ![pcRef[pid]] = ClosePc(@)]
                 ELSE pcs
       /\ pcRef' = [p \in Remote |-> IF p = pid THEN 0 ELSE pcRef[p]]
       /\ peers' = peers
       /\ fault' = "none"
       /\ UNCHANGED <<media, inflight>>

\* type === 'user_left': close and forget data.user_id's connection, drop its tile.
HandleUserLeft(from, pid) ==
  IF Ignored(from) THEN Discard
  ELSE /\ pcs' = IF Lookup(pcRef, pid) # 0
                 THEN [pcs EXCEPT ![pcRef[pid]] = ClosePc(@)]
                 ELSE pcs
       /\ pcRef' = [p \in Remote |-> IF p = pid THEN 0 ELSE pcRef[p]]
       /\ peers' = peers \ {pid}
       /\ fault' = "none"
       /\ UNCHANGED <<media, inflight>>

DeliverUserLeft(from, pid) ==
  /\ mounted /\ connected
  /\ HandleUserLeft(from, pid)
  /\ out' = NoMsg
  /\ est' = IF from \in Remote THEN [p \in Remote |-> IF p = pid THEN FALSE ELSE est[p]] ELSE est
  /\ UNCHANGED <<room, controls, mounted, connected, screen, joinSentRef, joinsSent>>

\* The socket hands a message to handleSignal.  A traced delivery records the
\* message in lastIn and keeps at most MaxTraced invocations suspended.
Trace(tr, t, from, arg) == IF tr THEN In(t, from, arg) ELSE NoIn
Traced(tr) == tr => BagCardinality(inflight') <= MaxTraced

Receive(tr) ==
  \/ \E from \in Senders :
       DeliverJoin(from) /\ lastIn' = Trace(tr, "join", from, NoId) /\ Traced(tr)
  \/ \E from \in Negotiators, to \in Recipients :
       DeliverOffer(from, to) /\ lastIn' = Trace(tr, "offer", from, to) /\ Traced(tr)
  \/ \E from \in Negotiators, to \in Recipients :
       DeliverAnswer(from, to) /\ lastIn' = Trace(tr, "answer", from, to) /\ Traced(tr)
  \/ \E from \in Negotiators, to \in Recipients, cand \in BOOLEAN :
       /\ DeliverIce(from, to, cand)
       /\ lastIn' = Trace(tr, IF cand THEN "ice-candidate" ELSE "ice-empty", from, to)
       /\ Traced(tr)
  \/ \E from \in Senders, pid \in Named :
       DeliverUserLeft(from, pid) /\ lastIn' = Trace(tr, "user_left", from, pid) /\ Traced(tr)

\* ------------------------------------- resuming a suspended handleSignal
\* What the transport accepts, by the connection's signaling state.
OfferAllowed(pc) == ~pc.closed /\ pc.sig \in {"stable", "have-local-offer"}
RemoteOfferAllowed(pc) == ~pc.closed
AnswerAllowed(pc) == ~pc.closed /\ pc.sig = "have-remote-offer"
RemoteAnswerAllowed(pc) == ~pc.closed /\ pc.sig = "have-local-offer"
CandidateAllowed(pc) == ~pc.closed /\ pc.rd

\* How an operation the transport does not carry out ends: its promise rejects
\* (InvalidStateError, OperationError), or, when the connection was closed while
\* the operation was under way, it may also never settle.
Rejection(pc, ok) == IF pc.closed /\ ok THEN "none" ELSE "negotiation"

\* The awaited promise rejects or never settles: the invocation ends there.
Abort(h, tag) ==
  /\ inflight' = Retire(h)
  /\ fault' = tag
  /\ out' = NoMsg

Goto(h, x, st) == inflight' = Retire(h) (+) SetToBag({Handler(h.type, h.peer, x, st)})

Acquire ==
  /\ nextStream' = nextStream + 1
  /\ live' = live \cup {nextStream + 1}
  /\ localStream' = IF mounted THEN nextStream + 1 ELSE localStream
  /\ startPhase' = startPhase

\* join: getUserMedia settled; setLocalStream, createPeerConnection, addTrack,
\* then await pc.createOffer().
JoinAfterMedia(h, ok) ==
  LET cp == CreatePeerConnection(pcs, pcRef, h.peer)
      x == cp.pc
  IN IF ~ok THEN Abort(h, "media") /\ UNCHANGED <<media, pcs, pcRef>>
     ELSE /\ Acquire
          /\ pcRef' = cp.ref
          /\ IF AddTrackThrows(cp.pcs[x], nextStream + 1)
             THEN pcs' = cp.pcs /\ Abort(h, "addTrack")
             ELSE /\ pcs' = [cp.pcs EXCEPT ![x] = AddTracks(@, nextStream + 1)]
                  /\ Goto(h, x, "createOffer")
                  /\ fault' = "none" /\ out' = NoMsg

\* offer: getUserMedia settled; setLocalStream, addTrack, then await
\* pc.setRemoteDescription(offer).
OfferAfterMedia(h, ok) ==
  IF ~ok THEN Abort(h, "media") /\ UNCHANGED <<media, pcs, pcRef>>
     ELSE /\ Acquire
          /\ pcRef' = pcRef
          /\ IF AddTrackThrows(pcs[h.pc], nextStream + 1)
             THEN pcs' = pcs /\ Abort(h, "addTrack")
             ELSE /\ pcs' = [pcs EXCEPT ![h.pc] = AddTracks(@, nextStream + 1)]
                  /\ Goto(h, h.pc, "setRemote")
                  /\ fault' = "none" /\ out' = NoMsg

\* A step that only waits for the transport: on to the next await.
Await(h, ok, allowed, next) ==
  /\ IF ok /\ allowed
     THEN Goto(h, h.pc, next) /\ fault' = "none" /\ out' = NoMsg
     ELSE Abort(h, Rejection(pcs[h.pc], ok))
  /\ UNCHANGED <<media, pcs, pcRef>>

\* The last await of an invocation: the description or candidate is applied and,
\* for a join or an offer, the reply is sent.
Finish(h, ok, allowed, pc2, msg) ==
  /\ IF ok /\ allowed
     THEN /\ pcs' = [pcs EXCEPT ![h.pc] = pc2]
          /\ inflight' = Retire(h)
          /\ fault' = "none"
          /\ out' = msg
     ELSE pcs' = pcs /\ Abort(h, Rejection(pcs[h.pc], ok))
  /\ UNCHANGED <<media, pcRef>>

\* A variant of SetLocalOffer that leaves the local description unset.
SetLocalOfferUnset(pc) == [pc EXCEPT !.sig = "have-local-offer"]

SetLocalOffer(pc) == [pc EXCEPT !.sig = "have-local-offer", !.ld = TRUE]
SetRemoteOffer(pc) == [pc EXCEPT !.sig = "have-remote-offer", !.rd = TRUE]
SetLocalAnswer(pc) == [pc EXCEPT !.sig = "stable", !.ld = TRUE]
SetRemoteAnswer(pc) == [pc EXCEPT !.sig = "stable", !.rd = TRUE]
\* addIceCandidate hands the candidate to the ICE agent: nothing the component reads changes.
AddCandidate(pc) == pc

Continue(h, ok) ==
  LET pc == pcs[h.pc]
  IN CASE h.step = "gum" /\ h.type = "join" -> JoinAfterMedia(h, ok)
       [] h.step = "gum" /\ h.type = "offer" -> OfferAfterMedia(h, ok)
       [] h.step = "createOffer" -> Await(h, ok, OfferAllowed(pc), "setLocal")
       [] h.step = "setLocal" ->
            Finish(h, ok, OfferAllowed(pc), SetLocalOffer(pc), Msg("offer", h.peer))
       [] h.step = "setRemote" ->
            /\ IF ok /\ RemoteOfferAllowed(pc)
               THEN /\ pcs' = [pcs EXCEPT ![h.pc] = SetRemoteOffer(pc)]
                    /\ Goto(h, h.pc, "createAnswer")
                    /\ fault' = "none" /\ out' = NoMsg
               ELSE pcs' = pcs /\ Abort(h, Rejection(pc, ok))
            /\ UNCHANGED <<media, pcRef>>
       [] h.step = "createAnswer" -> Await(h, ok, AnswerAllowed(pc), "setLocalAns")
       [] h.step = "setLocalAns" ->
            Finish(h, ok, AnswerAllowed(pc), SetLocalAnswer(pc), Msg("answer", h.peer))
       [] h.step = "setRemoteAns" ->
            Finish(h, ok, RemoteAnswerAllowed(pc), SetRemoteAnswer(pc), NoMsg)
       [] h.step = "addIce" ->
            Finish(h, ok, CandidateAllowed(pc), AddCandidate(pc), NoMsg)

Resume(h, ok) ==
  /\ lastIn' = NoIn
  /\ Continue(h, ok)
  /\ est' = IF h.step = "gum" /\ h.type = "join" /\ ok
            THEN [est EXCEPT ![h.peer] = TRUE] ELSE est
  /\ UNCHANGED <<room, controls, mounted, connected, screen, peers, joinSentRef,
                 joinsSent>>

\* start(): the getUserMedia of the mount effect settles.
StartSettles(ok) ==
  /\ lastIn' = NoIn
  /\ startPhase = "pending"
  /\ IF ok
     THEN /\ nextStream' = nextStream + 1
          /\ live' = live \cup {nextStream + 1}
          /\ localStream' = IF mounted THEN nextStream + 1 ELSE localStream
          /\ startPhase' = "done"
          /\ fault' = "none"
     ELSE /\ startPhase' = "failed"
          /\ fault' = "none"
          /\ UNCHANGED <<localStream, nextStream, live>>
  /\ out' = NoMsg
  /\ UNCHANGED <<room, controls, mounted, connected, screen, pcs, pcRef, peers,
                 joinSentRef, inflight, hist>>

\* A variant of JoinEffect without the joinSentRef guard.
JoinEffectRepeats ==
  /\ lastIn' = NoIn
  /\ mounted
  /\ connected /\ localStream # 0
  /\ joinSentRef' = TRUE
  /\ out' = Msg("join", NoId)
  /\ joinsSent' = joinsSent + 1
  /\ fault' = "none"
  /\ UNCHANGED <<room, controls, mounted, connected, media, screen, pcs, pcRef, peers,
                 inflight, est>>

\* The join announcement effect (deps: connected, localStream, send).
JoinEffect ==
  /\ lastIn' = NoIn
  /\ mounted
  /\ connected /\ localStream # 0 /\ ~joinSentRef
  /\ joinSentRef' = TRUE
  /\ out' = Msg("join", NoId)
  /\ joinsSent' = joinsSent + 1
  /\ fault' = "none"
  /\ UNCHANGED <<room, controls, mounted, connected, media, screen, pcs, pcRef, peers,
                 inflight, est>>

\* pc.ontrack: the transport delivers a remote track of an open connection.
OnTrack(x) ==
  /\ lastIn' = NoIn
  /\ mounted
  /\ ~pcs[x].closed /\ pcs[x].rd
  /\ peers' = peers \cup {pcs[x].peer}
  /\ out' = NoMsg /\ fault' = "none"
  /\ UNCHANGED <<room, controls, mounted, connected, media, screen, pcs, pcRef,
                 joinSentRef, inflight, hist>>

\* pc.onicecandidate: a local candidate is forwarded to the peer.
OnIceCandidate(x) ==
  /\ lastIn' = NoIn
  /\ ~pcs[x].closed /\ pcs[x].ld
  /\ out' = Msg("ice-candidate", pcs[x].peer)
  /\ fault' = "none"
  /\ UNCHANGED <<room, prog, hist>>

\* ------------------------------------------------- mute and camera
\* A variant of Toggle that writes the negated flag into the tracks.
ToggleInverted(flag, off, s) ==
  [flag |-> ~flag,
   off |-> IF s = 0 THEN off ELSE IF flag THEN off \cup {s} ELSE off \ {s}]

\* localStream?.getXTracks().forEach(t => (t.enabled = flag)); setFlag(!flag)
Toggle(flag, off, s) ==
  [flag |-> ~flag,
   off |-> IF s = 0 THEN off ELSE IF flag THEN off \ {s} ELSE off \cup {s}]

ToggleMute ==
  /\ lastIn' = NoIn
  /\ mounted
  /\ isMuted' = Toggle(isMuted, audioOff, localStream).flag
  /\ audioOff' = Toggle(isMuted, audioOff, localStream).off
  /\ out' = NoMsg /\ fault' = "none"
  /\ UNCHANGED <<room, isVideoOff, videoOff, mounted, connected, media, screen, pcs, pcRef,
                 peers, joinSentRef, inflight, hist>>

ToggleVideo ==
  /\ lastIn' = NoIn
  /\ mounted
  /\ isVideoOff' = Toggle(isVideoOff, videoOff, localStream).flag
  /\ videoOff' = Toggle(isVideoOff, videoOff, localStream).off
  /\ out' = NoMsg /\ fault' = "none"
  /\ UNCHANGED <<room, isMuted, audioOff, mounted, connected, media, screen, pcs, pcRef,
                 peers, joinSentRef, inflight, hist>>

\* The transport reports that an established connection has failed for good.
\* createPeerConnection registers ontrack and onicecandidate only, so no code
\* of the component runs.
TransportFails(x) ==
  /\ lastIn' = NoIn
  /\ ~pcs[x].closed /\ pcs[x].ld /\ pcs[x].rd /\ ~pcs[x].failed
  /\ pcs' = [pcs EXCEPT ![x].failed = TRUE]
  /\ out' = NoMsg /\ fault' = "none"
  /\ UNCHANGED <<room, controls, mounted, connected, media, screen, pcRef, peers,
                 joinSentRef, inflight, hist>>

\* ------------------------------------------------------ screen share
\* startScreenShare up to its await of getDisplayMedia (the button starts a
\* share while isScreenSharing is false).
StartScreenShare ==
  /\ lastIn' = NoIn
  /\ mounted /\ ~isScreenSharing
  /\ nextScreen + screenPending < MaxScreens
  /\ screenPending' = screenPending + 1
  /\ out' = NoMsg /\ fault' = "none"
  /\ UNCHANGED <<room, controls, mounted, connected, media, screenStream, isScreenSharing, nextScreen,
                 screenLive, pcs, pcRef, peers, joinSentRef, inflight, hist>>

\* getDisplayMedia settles: setScreenStream, setIsScreenSharing, onended; or the catch.
ScreenSettles(ok) ==
  /\ lastIn' = NoIn
  /\ screenPending > 0
  /\ screenPending' = screenPending - 1
  /\ IF ok
     THEN /\ nextScreen' = nextScreen + 1
          /\ screenLive' = screenLive \cup {nextScreen + 1}
          /\ screenStream' = IF mounted THEN nextScreen + 1 ELSE screenStream
          /\ isScreenSharing' = IF mounted THEN TRUE ELSE isScreenSharing
     ELSE UNCHANGED <<nextScreen, screenLive, screenStream, isScreenSharing>>
  /\ out' = NoMsg /\ fault' = "none"
  /\ UNCHANGED <<room, controls, mounted, connected, media, pcs, pcRef, peers, joinSentRef, inflight, hist>>

\* A variant of ScreenEnded that stops the tracks but leaves the component's state.
ScreenEndedKeepsFlag(s) ==
  /\ lastIn' = NoIn
  /\ s \in screenLive
  /\ screenLive' = screenLive \ {s}
  /\ out' = NoMsg /\ fault' = "none"
  /\ UNCHANGED <<room, controls, mounted, connected, media, screenStream, isScreenSharing, screenPending,
                 nextScreen, pcs, pcRef, peers, joinSentRef, inflight, hist>>

\* The user stops sharing in the browser's own UI: the track ends and its
\* onended handler runs on the stream it closed over.
ScreenEnded(s) ==
  /\ lastIn' = NoIn
  /\ s \in screenLive
  /\ screenLive' = screenLive \ {s}
  /\ screenStream' = IF mounted THEN 0 ELSE screenStream
  /\ isScreenSharing' = IF mounted THEN FALSE ELSE isScreenSharing
  /\ out' = NoMsg /\ fault' = "none"
  /\ UNCHANGED <<room, controls, mounted, connected, media, screenPending, nextScreen, pcs, pcRef, peers,
                 joinSentRef, inflight, hist>>

\* stopScreenShare (the button stops the share while isScreenSharing is true).
StopScreenShare ==
  /\ lastIn' = NoIn
  /\ mounted /\ isScreenSharing
  /\ screenLive' = screenLive \ {screenStream}
  /\ screenStream' = 0
  /\ isScreenSharing' = FALSE
  /\ out' = NoMsg /\ fault' = "none"
  /\ UNCHANGED <<room, controls, mounted, connected, media, screenPending, nextScreen, pcs, pcRef, peers,
                 joinSentRef, inflight, hist>>

\* ------------------------------------------------------ ending the call
\* A variant of HangUp in which closing a connection that is already closed throws.
HangUpThrowsOnClosed ==
  /\ lastIn' = NoIn
  /\ mounted
  /\ live' = live \ {localStream}
  /\ screenLive' = screenLive \ {screenStream}
  /\ pcs' = CloseAll(pcs, pcRef)
  /\ out' = NoMsg
  /\ fault' = IF \E p \in Remote : pcRef[p] # 0 /\ pcs[pcRef[p]].closed
              THEN "close" ELSE "none"
  /\ UNCHANGED <<room, controls, mounted, connected, startPhase, localStream, nextStream, screenStream,
                 isScreenSharing, screenPending, nextScreen, pcRef, peers, joinSentRef,
                 inflight, hist>>

\* hangUp: stop the tracks of the streams of this render, close every
\* connection of the map (the entries stay), call onClose.
HangUp ==
  /\ lastIn' = NoIn
  /\ mounted
  /\ live' = live \ {localStream}
  /\ screenLive' = screenLive \ {screenStream}
  /\ pcs' = CloseAll(pcs, pcRef)
  /\ out' = NoMsg /\ fault' = "none"
  /\ UNCHANGED <<room, controls, mounted, connected, startPhase, localStream, nextStream, screenStream,
                 isScreenSharing, screenPending, nextScreen, pcRef, peers, joinSentRef,
                 inflight, hist>>

\* The streams the cleanup of the mount effect closes over: the effect has no
\* dependencies, so they are the useState initial values of the first render.
CleanupLocalStream == 0
CleanupScreenStream == 0

\* The cleanup of the mount effect, run when the component unmounts; React then
\* drops the component's state and refs (pcRef lives on in suspended closures).
Unmount ==
  /\ lastIn' = NoIn
  /\ mounted
  /\ mounted' = FALSE
  /\ live' = live \ {CleanupLocalStream}
  /\ screenLive' = screenLive \ {CleanupScreenStream}
  /\ pcs' = CloseAll(pcs, pcRef)
  /\ pcRef' = [p \in Remote |-> 0]
  /\ est' = [p \in Remote |-> FALSE]
  /\ connected' = FALSE /\ peers' = {} /\ joinSentRef' = FALSE
  /\ localStream' = 0 /\ screenStream' = 0 /\ isScreenSharing' = FALSE
  /\ isMuted' = FALSE /\ isVideoOff' = FALSE /\ audioOff' = {} /\ videoOff' = {}
  /\ out' = NoMsg /\ fault' = "none"
  /\ UNCHANGED <<room, startPhase, nextStream, screenPending, nextScreen, inflight, joinsSent>>

\* The header's close button calls onClose, upon which the parent takes the
\* component off the page.
CloseButton == Unmount

Signalling ==
  \/ ConnectedChange
  \/ \E h \in Suspended, ok \in BOOLEAN : Resume(h, ok)
  \/ \E ok \in BOOLEAN : StartSettles(ok)
  \/ JoinEffect
  \/ \E x \in DOMAIN pcs : OnTrack(x)
  \/ \E x \in DOMAIN pcs : OnIceCandidate(x)

Ending ==
  \/ HangUp
  \/ Unmount
  \/ CloseButton

Sharing ==
  \/ StartScreenShare
  \/ \E ok \in BOOLEAN : ScreenSettles(ok)
  \/ \E s \in screenLive : ScreenEnded(s)
  \/ StopScreenShare

Next ==
  \/ Receive(FALSE)
  \/ Signalling
  \/ Ending

Spec == Init /\ [][Next]_vars

NextTraced ==
  \/ Receive(TRUE)
  \/ Signalling
  \/ Ending

SpecTraced == Init /\ [][NextTraced]_vars

\* A call with one other participant, with screen sharing.
Calls ==
  \/ DeliverJoin("B") /\ lastIn' = NoIn
  \/ DeliverOffer("B", Local) /\ lastIn' = NoIn
  \/ DeliverUserLeft("C", "B") /\ lastIn' = NoIn

NextCall ==
  \/ Calls
  \/ Signalling
  \/ Sharing
  \/ Ending

SpecCall == Init /\ [][NextCall]_vars

Controls ==
  \/ ToggleMute
  \/ ToggleVideo

Transport == \E x \in DOMAIN pcs : TransportFails(x)

\* A call with one other participant, with the mute and camera buttons and a
\* transport that can fail.
NextControls ==
  \/ Calls
  \/ Signalling
  \/ Controls
  \/ Transport
  \/ Ending

SpecControls == Init /\ [][NextControls]_vars

\* ----------------------------------------------- a room of two components
single == <<mounted, connected, startPhase, localStream, nextStream, live, screen,
            pcs, pcRef, peers, joinSentRef, controls, inflight, out, fault, lastIn, hist>>

\* The bus hands a message of i to the other participant if its socket is open.
Broadcast(r, i, m) ==
  IF r[Other(i)].connected
  THEN [r EXCEPT ![Other(i)].inbox = Append(@, [type |-> m, from |-> i, to |-> Other(i)])]
  ELSE r

\* useCallSocket's connected flag of i changes as its socket opens and closes;
\* what was on its way to a socket that closes is lost.
RoomConnectedChange(i) ==
  /\ room' = [room EXCEPT ![i].connected = ~@,
                          ![i].inbox = IF room[i].connected THEN <<>> ELSE @]
  /\ UNCHANGED single

\* start() of i: getUserMedia resolves, setLocalStream.
RoomMedia(i) ==
  /\ ~room[i].stream
  /\ room' = [room EXCEPT ![i].stream = TRUE]
  /\ UNCHANGED single

\* The join announcement effect of i.
RoomJoinEffect(i) ==
  /\ room[i].connected /\ room[i].stream /\ ~room[i].joinSent
  /\ room' = Broadcast([room EXCEPT ![i].joinSent = TRUE], i, "join")
  /\ UNCHANGED single

\* createPeerConnection of i for the other participant.
MemberPc(r, i) == IF r[i].pc = <<>> THEN NewPc(Other(i)) ELSE r[i].pc[1]

\* handleSignal of i on the first message of its inbox, each await settling as
\* the transport decides; the stream of i is stream 1.
RoomHandle(i) ==
  /\ room[i].inbox # <<>>
  /\ LET m == Head(room[i].inbox)
         r == [room EXCEPT ![i].inbox = Tail(@)]
         pc == MemberPc(r, i)
     IN room' =
          CASE m.from = NoId \/ m.from = i -> r
            [] m.type = "join" ->
                 LET r1 == [r EXCEPT ![i].stream = TRUE, ![i].pc = <<pc>>]
                 IN IF AddTrackThrows(pc, 1) \/ ~OfferAllowed(pc) THEN r1
                    ELSE Broadcast([r1 EXCEPT ![i].pc = <<SetLocalOffer(AddTracks(pc, 1))>>],
                                   i, "offer")
            [] m.type = "offer" /\ m.to = i ->
                 LET r1 == [r EXCEPT ![i].stream = TRUE, ![i].pc = <<pc>>]
                 IN IF AddTrackThrows(pc, 1) \/ ~RemoteOfferAllowed(pc) THEN r1
                    ELSE Broadcast(
                           [r1 EXCEPT ![i].pc =
                              <<SetLocalAnswer(SetRemoteOffer(AddTracks(pc, 1)))>>],
                           i, "answer")
            [] m.type = "answer" /\ m.to = i ->
                 IF r[i].pc # <<>> /\ RemoteAnswerAllowed(r[i].pc[1])
                 THEN [r EXCEPT ![i].pc = <<SetRemoteAnswer(r[i].pc[1])>>]
                 ELSE r
            [] OTHER -> r
  /\ UNCHANGED single

NextRoom ==
  \E i \in Pair :
    \/ RoomConnectedChange(i)
    \/ RoomMedia(i)
    \/ RoomJoinEffect(i)
    \/ RoomHandle(i)

SpecRoom == Init /\ [][NextRoom]_vars

\* ------------------------------------------------------------- claims
Quiet == inflight = EmptyBag

\* C1 (as stated): a participant who has just sent A a message other than
\* user_left (a join, or an offer, answer or candidate addressed to A), handled
\* with nothing left suspended, is in the peer-connection map.
C1_SenderInMap ==
  \A p \in Remote :
    /\ lastIn.from = p
    /\ \/ lastIn.type = "join"
       \/ lastIn.type \in {"offer", "answer", "ice-candidate"} /\ lastIn.arg = Local
    /\ Quiet
    => pcRef[p] # 0

\* C1 (amended): the peer-connection map holds exactly the participants one of
\* whose joins (once a local stream was there) or offers addressed to A has
\* reached session creation, and who have not been named since in a user_left
\* from another participant, nor dropped by the unmount cleanup.  Answers,
\* candidates, offers addressed elsewhere and own messages never add an entry.
C1_MapIsEstablished == Keys(pcRef) = {p \in Remote : est[p]}

\* B had a session and left, C's session is still in the map.
C1_Witness ==
  /\ mounted
  /\ pcRef["B"] = 0 /\ pcRef["C"] # 0
  /\ \E x \in DOMAIN pcs : pcs[x].peer = "B" /\ pcs[x].closed

\* An invocation of handleSignal that was suspended ends in this step.
Ends(h) ==
  /\ CopiesIn(h, inflight') < CopiesIn(h, inflight)
  /\ BagCardinality(inflight') < BagCardinality(inflight)

\* C2 (as stated): a candidate received for a session that has no remote
\* description yet stays held as long as the session is open and has none: it
\* is neither applied nor dropped before the remote description is set.
C2_CandidateHeld ==
  [][\A h \in Suspended :
       h.step = "addIce" /\ ~pcs[h.pc].closed /\ ~pcs[h.pc].rd /\ ~pcs'[h.pc].closed
       => ~Ends(h)]_vars

\* C3: the join announcement is sent at most once, and in the state in which it
\* has just been sent the channel reports connected and a local stream is held.
C3_JoinOnce ==
  /\ joinsSent <= 1
  /\ out.type = "join" => connected /\ localStream # 0

\* The announcement was sent on the first stream; later the socket reconnected
\* and a second capture replaced the local stream.
C3_Witness ==
  /\ mounted /\ joinsSent = 1 /\ connected /\ localStream = 2 /\ out.type # "join"

\* C4 (as stated): a join handling that has its media and its session ends, when
\* it ends without an exception, by sending the offer to the joiner.
C4_JoinEndsInOffer ==
  [][\A h \in Suspended :
       h.type = "join" /\ h.step # "gum" /\ Ends(h) /\ fault' = "none"
       => out' = Msg("offer", h.peer)]_vars

\* C4 (amended): a join from B, once media is there, puts a session for B in the
\* map; an offer is sent only as the last step of a join handling, to that
\* joiner, on an open session whose local description has just been set; and a
\* join handling ends without its offer only if B's session was closed meanwhile
\* or createOffer / setLocalDescription was rejected.
C4_OfferAfterLocalDescription ==
  [][/\ \A p \in Remote : DeliverJoin(p) /\ localStream # 0 => pcRef'[p] # 0
     /\ \A h \in Suspended :
          h.type = "join" /\ h.step = "gum" /\ Ends(h) /\ fault' = "none" => FALSE
     /\ \A h \in Suspended :
          h.type = "join" /\ h.step = "gum" /\ ~Ends(h) /\ CopiesIn(h, inflight') < CopiesIn(h, inflight)
          => pcRef'[h.peer] # 0 /\ pcs'[pcRef'[h.peer]].peer = h.peer
     /\ out'.type = "offer" =>
          \E h \in Suspended :
            /\ h.type = "join" /\ h.peer = out'.to /\ h.step = "setLocal" /\ Ends(h)
            /\ pcs'[h.pc].peer = h.peer /\ pcs'[h.pc].ld /\ ~pcs'[h.pc].closed
     /\ \A h \in Suspended :
          h.type = "join" /\ h.step # "gum" /\ Ends(h) /\ out' # Msg("offer", h.peer)
          => pcs[h.pc].closed \/ fault' = "negotiation"]_vars

\* The offer to B has just been sent on B's session, whose local description is set.
C4_Witness ==
  /\ out = Msg("offer", "B")
  /\ pcRef["B"] # 0 /\ pcs[pcRef["B"]].ld /\ pcs[pcRef["B"]].sig = "have-local-offer"

\* C5: an offer from B addressed to A leaves a session for B in the map; while
\* the answer is generated and applied the offer is that session's remote
\* description; and an answer is sent only as the last step of an offer
\* handling, to the offerer, on an open session with both descriptions set.
C5_AnswerAfterBothDescriptions ==
  /\ [](\A h \in Suspended :
          h.type = "offer" /\ h.step \in {"createAnswer", "setLocalAns"}
          => pcs[h.pc].rd \/ pcs[h.pc].closed)
  /\ [][/\ \A p \in Remote :
             DeliverOffer(p, Local) => pcRef'[p] # 0 /\ pcs'[pcRef'[p]].peer = p
        /\ out'.type = "answer" =>
             \E h \in Suspended :
               /\ h.type = "offer" /\ h.peer = out'.to /\ h.step = "setLocalAns" /\ Ends(h)
               /\ pcs'[h.pc].peer = h.peer /\ ~pcs'[h.pc].closed
               /\ pcs[h.pc].rd /\ pcs'[h.pc].rd /\ pcs'[h.pc].ld]_vars

\* The answer to B has just been sent on B's session, both descriptions set.
C5_Witness ==
  /\ out = Msg("answer", "B")
  /\ pcRef["B"] # 0 /\ pcs[pcRef["B"]].rd /\ pcs[pcRef["B"]].ld

\* The sessions of every participant but pid are as they were.
OthersUntouched(pid) ==
  /\ \A q \in Remote \ {pid} : pcRef'[q] = pcRef[q] /\ (q \in peers' <=> q \in peers)
  /\ \A x \in DOMAIN pcs : pcs[x].peer # pid => pcs'[x] = pcs[x]
  /\ Len(pcs') = Len(pcs)

UserLeftEffect(pid) ==
  /\ Lookup(pcRef, pid) # 0 =>
       pcs'[pcRef[pid]].closed /\ pcRef'[pid] = 0 /\ pid \notin peers'
  /\ Lookup(pcRef, pid) = 0 => UNCHANGED <<pcs, pcRef, peers>>
  /\ OthersUntouched(pid)
  /\ UNCHANGED <<inflight, media>>

\* C6 (as stated): every user_left naming P closes and removes P's session if
\* there is one, changes nothing if there is none, and leaves the others alone.
C6_UserLeftCloses ==
  [][lastIn'.type = "user_left" => UserLeftEffect(lastIn'.arg)]_vars

\* C6 (amended): the same, for a user_left whose sender is present and is not
\* the local participant.
C6_UserLeftFromOthersCloses ==
  [][lastIn'.type = "user_left" /\ lastIn'.from \in Remote
     => UserLeftEffect(lastIn'.arg)]_vars

\* C has just announced that B left: B's connection is closed and out of the
\* map, C's session is in the map and open.
C6_Witness ==
  /\ lastIn = In("user_left", "C", "B")
  /\ pcRef["B"] = 0 /\ "B" \notin peers
  /\ \E x \in DOMAIN pcs : pcs[x].peer = "B" /\ pcs[x].closed /\ pcs[x].sig = "closed"
  /\ pcRef["C"] # 0 /\ ~pcs[pcRef["C"]].closed

\* C7: an answer or a candidate addressed to A from a participant that has no
\* session changes no session, no tile, no media state, suspends nothing, sends
\* nothing and raises nothing.
C7_StaleIgnored ==
  [][/\ lastIn'.type \in {"answer", "ice-candidate"}
     /\ lastIn'.arg = Local
     /\ lastIn'.from \in Remote
     /\ pcRef[lastIn'.from] = 0
     => /\ UNCHANGED <<pcs, pcRef, peers, inflight, media>>
        /\ out' = NoMsg /\ fault' = "none"]_vars

\* A candidate from B addressed to A has just been handled while B has no
\* session and C has one.
C7_Witness ==
  /\ lastIn = In("ice-candidate", "B", Local)
  /\ pcRef["B"] = 0 /\ pcRef["C"] # 0 /\ Quiet

\* C8: a message of any type whose sender is the local participant, and an
\* offer, answer or candidate whose to_user is another participant, changes no
\* session, no tile and no media state, suspends nothing and sends nothing.
C8_NotForMeDiscarded ==
  [][\/ lastIn'.type # "none" /\ lastIn'.from = Local
     \/ lastIn'.type \in {"offer", "answer", "ice-candidate"} /\ lastIn'.arg # Local
     => /\ UNCHANGED <<pcs, pcRef, peers, inflight, media>>
        /\ out' = NoMsg]_vars

\* An offer from B addressed to C has just been handled while B has no session.
C8_Witness ==
  /\ lastIn = In("offer", "B", "C")
  /\ pcRef["B"] = 0 /\ localStream # 0

AllClosed(ps) == \A x \in DOMAIN ps : ps[x].closed

\* C9 (as stated): a step that ends the call, by hangUp, by the close button or
\* by unmounting, leaves every connection closed and the tracks of the local
\* stream and of the screen-share stream stopped.
C9_EndingReleasesAll ==
  [][HangUp \/ CloseButton \/ Unmount
     => /\ AllClosed(pcs')
        /\ localStream \notin live'
        /\ screenStream \notin screenLive']_vars

\* The call's resources are released: the tracks of the local stream and of the
\* screen-share stream are stopped and every connection of the map is closed.
Released ==
  /\ localStream \notin live
  /\ screenStream \notin screenLive
  /\ \A p \in Remote : pcRef[p] # 0 => pcs[pcRef[p]].closed

\* C10: hangUp, or the unmount cleanup, invoked when a hangUp has released the
\* call's resources raises nothing and leaves every stream and every connection
\* as the first invocation left it.
C10_HangUpIdempotent ==
  [][(HangUp \/ Unmount) /\ Released
     => /\ UNCHANGED <<live, screenLive, pcs>>
        /\ fault' = "none"
        /\ Released']_vars

\* hangUp has run on a call with a camera stream, a screen share and a session
\* for B: all three are released, and the component is still mounted.
C10_Witness ==
  /\ mounted /\ Released
  /\ localStream # 0 /\ screenStream # 0
  /\ pcRef["B"] # 0 /\ pcs[pcRef["B"]].closed

\* C11 (as stated): once the call has ended nothing that was in flight takes
\* effect: no capture stream is acquired and left live, no connection is
\* created, no offer or answer is sent.
C11_NothingAfterEnd ==
  [][~mounted
     => /\ live' \subseteq live
        /\ Len(pcs') = Len(pcs)
        /\ out'.type \notin {"offer", "answer"}]_vars

\* C16 (as stated): once the initial acquisition of local media has failed no
\* join announcement is sent and no peer session is created.
C16_MediaFailureAborts ==
  [][startPhase = "failed"
     => /\ joinsSent' = joinsSent
        /\ Len(pcs') = Len(pcs)
        /\ pcRef' = pcRef]_vars

\* C17 (as stated): when an operation of participant B's session is rejected by
\* the transport, B's session is closed and is no longer in the map.
C17_RejectionClosesSession ==
  [][\A h \in Suspended :
       h.step # "gum" /\ Ends(h) /\ fault' = "negotiation"
       => pcs'[h.pc].closed /\ pcRef'[h.peer] # h.pc]_vars

\* C19 (as stated): B enters the UI peer set only on a remote track of the
\* session the map holds for B; and right after a user_left naming B has been
\* handled, a step that is not a message from B leaves B out of the map and out
\* of the UI peer set.
C19_LeftStaysOut ==
  [][\A p \in Remote :
       /\ p \in peers' /\ p \notin peers
          => pcRef[p] # 0 /\ ~pcs[pcRef[p]].closed /\ pcs[pcRef[p]].rd
       /\ lastIn.type = "user_left" /\ lastIn.arg = p /\ lastIn.from \in Remote
          /\ lastIn'.from # p
          => pcRef'[p] = 0 /\ p \notin peers']_vars

\* C20: a participant that is not in the map is put into it only with a
\* connection object created in that step, open and without descriptions; a
\* connection closed by an earlier user_left is never taken up again.
C20_ClosedNeverReused ==
  [][\A p \in Remote :
       pcRef[p] = 0 /\ pcRef'[p] # 0
       => /\ pcRef'[p] = Len(pcs) + 1
          /\ Len(pcs') = Len(pcs) + 1
          /\ pcs'[pcRef'[p]].peer = p
          /\ ~pcs'[pcRef'[p]].closed
          /\ ~pcs'[pcRef'[p]].ld /\ ~pcs'[pcRef'[p]].rd]_vars

\* B's first connection was closed by a user_left; B came back and is served by
\* a second connection object, which is open.
C20_Witness ==
  /\ mounted
  /\ pcs # <<>> /\ pcs[1].peer = "B" /\ pcs[1].closed
  /\ pcRef["B"] = 2 /\ ~pcs[2].closed /\ pcs[2].tracks # {}

\* C12 (as stated): when getDisplayMedia succeeds while sessions are open, the
\* screen track is attached to each of them and an offer is sent.
C12_ShareRenegotiates ==
  [][/\ mounted /\ nextScreen' = nextScreen + 1
     /\ \E p \in Remote : pcRef[p] # 0 /\ ~pcs[pcRef[p]].closed
     => /\ \A p \in Remote :
             pcRef[p] # 0 /\ ~pcs[pcRef[p]].closed
             => pcs'[pcRef[p]].tracks # pcs[pcRef[p]].tracks
        /\ out'.type = "offer"]_vars

\* C15: when the track of the stream being shared ends, the step taken by its
\* onended handler is the step stopScreenShare takes from the same state: the
\* tracks stopped, the handle cleared, the flag false, sessions and local
\* stream as they were.
C15_EndedIsStop ==
  [][/\ mounted /\ isScreenSharing /\ screenStream \in screenLive
     /\ ScreenEnded(screenStream)
     => /\ StopScreenShare
        /\ screenStream' = 0 /\ ~isScreenSharing' /\ screenStream \notin screenLive'
        /\ UNCHANGED <<pcs, pcRef, peers, media>>]_vars

\* A share has been started and is over, during a call with an open session
\* for B and a live local stream.
C15_Witness ==
  /\ mounted /\ nextScreen > 0 /\ screenPending = 0
  /\ screenStream = 0 /\ ~isScreenSharing /\ screenLive = {}
  /\ pcRef["B"] # 0 /\ ~pcs[pcRef["B"]].closed
  /\ localStream \in live

\* The audio flags after the mute button is pressed twice in a row.
MuteUnmute ==
  LET once == Toggle(isMuted, audioOff, localStream)
  IN Toggle(once.flag, once.off, localStream)

\* C13: the mute and camera buttons acquire no stream and leave the local
\* stream handle, the sessions and the screen share alone; mute changes only
\* the audio flag of the local stream and camera only its video flag; and from
\* an unmuted call with a local stream, muting then unmuting gives back the
\* audio flags and the mute state there were.
C13_TogglesOnlyFlipFlags ==
  /\ [](mounted /\ ~isMuted /\ localStream # 0
        => /\ localStream \in Toggle(isMuted, audioOff, localStream).off
           /\ MuteUnmute.off = audioOff /\ MuteUnmute.flag = isMuted)
  /\ [][ToggleMute \/ ToggleVideo
        => /\ UNCHANGED <<media, screen, pcs, pcRef, peers, inflight>>
           /\ audioOff' \ {localStream} = audioOff \ {localStream}
           /\ videoOff' \ {localStream} = videoOff \ {localStream}
           /\ ToggleMute => videoOff' = videoOff /\ isVideoOff' = isVideoOff
           /\ ToggleVideo => audioOff' = audioOff /\ isMuted' = isMuted]_vars

\* The local stream is muted with the camera on, after an earlier capture
\* stream was muted and then replaced.
C13_Witness ==
  /\ mounted /\ isMuted /\ ~isVideoOff
  /\ localStream = 2 /\ audioOff = {1, 2} /\ videoOff = {}

\* C14 (as stated): pressing the mute or the camera button while no local
\* stream is held changes neither flag nor anything else of the call.
C14_ToggleWithoutStreamNoOp ==
  [][(ToggleMute \/ ToggleVideo) /\ localStream = 0
     => UNCHANGED <<isMuted, isVideoOff, audioOff, videoOff, media, pcs, pcRef, peers>>]_vars

\* C18 (as stated): when the transport reports the failure of an established
\* connection, the connection is closed and its participant leaves the map and
\* the UI peer set in that step.
C18_FailureClosesSession ==
  [][\A x \in DOMAIN pcs :
       TransportFails(x)
       => /\ pcs'[x].closed
          /\ pcRef'[pcs[x].peer] = 0
          /\ pcs[x].peer \notin peers']_vars

\* C21 (as stated): messages of one sender take effect in arrival order: once a
\* user_left sent by B has been handled, a handling of an earlier message of B
\* that was suspended changes no session, no media state and sends nothing, and
\* B is not in the map.
C21_InArrivalOrder ==
  [][\A h \in Suspended :
       /\ lastIn.type = "user_left" /\ lastIn.from = h.peer /\ lastIn.arg = h.peer
       /\ CopiesIn(h, inflight') < CopiesIn(h, inflight)
       => /\ UNCHANGED <<pcs, pcRef, media>>
          /\ out' = NoMsg
          /\ pcRef'[h.peer] = 0]_vars

\* C22 (as stated): captures acquired and acquisitions pending are together at
\* most one, and the tracks attached to any session are those of that capture.
C22_SingleCapture ==
  /\ nextStream + PendingGum <= 1
  /\ \A x \in DOMAIN pcs : pcs[x].tracks \subseteq {1}

\* The track of screen stream s, as it would appear among a connection's tracks.
ScreenTrack(s) == 0 - s

\* C23 (as stated): a handling that goes on to createOffer or createAnswer has
\* attached the tracks of the local stream to the session, and the track of the
\* screen stream when a share is on.
C23_TracksBeforeDescription ==
  [][\A h \in BagToSet(inflight') :
       /\ h.step \in {"createOffer", "createAnswer"}
       /\ CopiesIn(h, inflight') > CopiesIn(h, inflight)
       => /\ pcs'[h.pc].tracks # {}
          /\ isScreenSharing /\ screenStream # 0
             => ScreenTrack(screenStream) \in pcs'[h.pc].tracks]_vars

\* C25 (as stated): while a local stream is held the mute flag is true exactly
\* when its audio tracks are disabled, and the camera flag exactly when its
\* video tracks are.
C25_FlagsMatchTracks ==
  mounted /\ localStream # 0
  => /\ isMuted <=> localStream \in audioOff
     /\ isVideoOff <=> localStream \in videoOff

OpenPcs(p) == {x \in DOMAIN pcs : pcs[x].peer = p /\ ~pcs[x].closed}

\* C26: a participant has at most one open connection, the one the map holds
\* for it; a join or an offer from a participant that has a session creates no
\* connection object; and a handling that finds the local stream already
\* attached ends in addTrack's exception with the tracks as they were.
C26_OnePcPerParticipant ==
  /\ [](\A p \in Remote :
          /\ Cardinality(OpenPcs(p)) <= 1
          /\ OpenPcs(p) \subseteq {pcRef[p]})
  /\ [][/\ \A p \in Remote :
             pcRef[p] # 0 /\ (DeliverJoin(p) \/ DeliverOffer(p, Local))
             => Len(pcs') = Len(pcs) /\ pcRef' = pcRef
        /\ \A x \in DOMAIN pcs :
             pcs'[x].tracks # pcs[x].tracks /\ ~pcs'[x].closed
             => \E s \in 1..nextStream' :
                  s \notin pcs[x].tracks /\ pcs'[x].tracks = pcs[x].tracks \cup {s}
        /\ fault' = "addTrack" => \A x \in DOMAIN pcs : pcs'[x].tracks = pcs[x].tracks]_vars

\* B, who has a session with the local stream attached, has sent join again: the
\* handling ended in addTrack's exception and B still has its one connection.
C26_Witness ==
  /\ fault = "addTrack"
  /\ pcRef["B"] # 0 /\ OpenPcs("B") = {pcRef["B"]}
  /\ pcs[pcRef["B"]].tracks = {localStream}

\* C27 (as stated): every participant of the UI peer set has an open connection
\* in the map.
C27_TilesHaveOpenSession ==
  peers \subseteq {p \in Remote : pcRef[p] # 0 /\ ~pcs[pcRef[p]].closed}

\* C24 (as stated): no participant of the room is handed an offer of the other
\* while its own offer to the other is unanswered.
C24_NoOfferGlare ==
  \A i \in Pair :
    room[i].inbox # <<>> /\ Head(room[i].inbox).type = "offer"
    => ~(room[i].pc # <<>> /\ room[i].pc[1].sig = "have-local-offer")
====
